---------------------------- MODULE Spec2Model ----------------------------
(***************************************************************************)
(* Client import reconciliation (case-status-interview-be).                *)
(*                                                                         *)
(* The model follows services.py: extract_client_data,                     *)
(* process_phone_numbers, derive_names, find_existing_client,              *)
(* validate_client_input and ImportCaseHelper.import_client_handler, with  *)
(* helper.py (_update_client, filter_cell_phone_numbers, encrypt_ssn),     *)
(* repositories.py (ClientRepository) and the client table of models.py.   *)
(*                                                                         *)
(* A Python string is a sequence of chunks (TLA+ strings) whose            *)
(* concatenation is the string.  Values the code looks into (names, phone  *)
(* numbers) are held one character per chunk; literals the code only       *)
(* copies are one chunk.  Python's None is the value None below.           *)
(***************************************************************************)
EXTENDS Integers, Sequences, FiniteSets, TLC

VARIABLES
    clients,   \* the client table: row i is the client with id i
    users,     \* the accounts of the user store (never written here)
    ncalls,    \* reconciliations started so far
    pc,        \* "idle", or "returned" once an invocation has ended
    req,       \* the arguments of the last invocation
    out,       \* what it left behind: results, row, session, trace
    pre,       \* the client table as the last invocation found it
    wpc,       \* two overlapping requests: where each one is
    wreq,      \*   the arguments of each
    wlook,     \*   what find_existing_client returned to each
    wout       \*   what each left behind

vars == <<clients, users, ncalls, pc, req, out, pre, wpc, wreq, wlook, wout>>

---------------------------------------------------------------------------
(* Bounds of the model.                                                    *)

MaxCalls == 2

---------------------------------------------------------------------------
(* Python values.                                                          *)

None == <<"%None%">>

\* None where the code expects a list of strings.
NoList == <<<<"%None%", "%list%">>>>

\* Python truthiness of a string or list: None, "" and [] are falsy.
Truthy(v) == v # None /\ v # <<>>

\* Python's `a or b`.
Or(a, b) == IF Truthy(a) THEN a ELSE b

\* str(v) as used by str.format: None prints as "None".
Str(v) == IF v = None THEN <<"None">> ELSE v

UpperCase == <<"A","B","C","D","E","F","G","H","I","J","K","L","M",
               "N","O","P","Q","R","S","T","U","V","W","X","Y","Z">>

LowerCase == <<"a","b","c","d","e","f","g","h","i","j","k","l","m",
               "n","o","p","q","r","s","t","u","v","w","x","y","z">>

\* str.lower(), character by character.
Lower(s) ==
    [i \in 1..Len(s) |->
        IF \E k \in 1..Len(UpperCase) : UpperCase[k] = s[i]
        THEN LowerCase[CHOOSE k \in 1..Len(UpperCase) : UpperCase[k] = s[i]]
        ELSE s[i]]

\* `needle in hay` for strings held one character per chunk.
Contains(hay, needle) ==
    \E i \in 0..(Len(hay) - Len(needle)) :
        SubSeq(hay, i + 1, i + Len(needle)) = needle

RECURSIVE Join(_, _)
\* sep.join(list)
Join(list, sep) ==
    IF list = <<>> THEN <<>>
    ELSE IF Len(list) = 1 THEN list[1]
    ELSE list[1] \o sep \o Join(Tail(list), sep)

RECURSIVE Split(_, _)
\* s.split(sep) for a one-character sep: every separator cuts, so leading,
\* trailing and doubled separators give empty tokens.
Split(s, sep) ==
    IF \E i \in 1..Len(s) : s[i] = sep
    THEN LET i == CHOOSE j \in 1..Len(s) :
                     s[j] = sep /\ \A k \in 1..(j - 1) : s[k] # sep
         IN  <<SubSeq(s, 1, i - 1)>> \o Split(SubSeq(s, i + 1, Len(s)), sep)
    ELSE <<s>>

SelectNotNone(list) == SelectSeq(list, LAMBDA x : x # None)

---------------------------------------------------------------------------
(* constants.py / helper.py                                                *)

CSV_IMPORT == <<"CSV_IMPORT">>
THIRD_PARTY == <<"THIRD_PARTY">>
MYCASE == <<"MYCASE">>

CLIENT_MISSING_NAME == <<"Client missing name.">>
CLIENT_NOT_FOUND_STOP_ZAP == <<"Client not found, stopping import.">>
CLIENT_UPDATED == <<"Client updated.">>
CLIENT_CONTACT_INFO_FIELD_NAMES == <<"first_name", "last_name", "email", "cell_phone">>

\* CELL_PHONE_INVALID.format(display)
CELL_PHONE_INVALID(display) == <<"Cell phone invalid: ">> \o Str(display)

\* USER_ALREADY_EXISTS.format(email, phone)
USER_ALREADY_EXISTS(email, phone) ==
    <<"User already exists: ">> \o Str(email) \o <<", ">> \o Str(phone)

\* encrypt_ssn: the placeholder returns its argument.
encrypt_ssn(ssn) == ssn

---------------------------------------------------------------------------
(* models.py: the client table.                                            *)

\* The attributes of a Client (hasattr).  A row of the table holds all of
\* them but id, which is the row's place in the table.
ClientFields ==
    {"id", "firm_id", "first_name", "last_name", "birth_date", "email",
     "cell_phone", "integration_id", "ssn"}

\* Client(): a new instance, every column unset.
NewClient ==
    [firm_id |-> None, first_name |-> None, last_name |-> None,
     birth_date |-> None, email |-> None, cell_phone |-> None,
     integration_id |-> None, ssn |-> None]

\* The columns declared nullable=False (the primary key is assigned by the
\* table).  The first one that is None fails the write, if any.
NotNullColumns == <<"firm_id", "first_name", "last_name", "integration_id">>

\* The columns declared unique=True.
UniqueColumns == {"email"}

---------------------------------------------------------------------------
(* repositories.py                                                         *)

\* query(Client).filter_by(...).first(): the id of the first row that
\* matches, or 0 when none does.
FirstRow(matching) ==
    IF matching = {} THEN 0
    ELSE CHOOSE i \in matching : \A j \in matching : i <= j

\* A lookup by integration id that matches nothing.
find_by_integration_id_NeverFinds(table, firm_id, integration_id) == FirstRow({})

find_by_integration_id(table, firm_id, integration_id) ==
    FirstRow({i \in 1..Len(table) :
                 table[i].firm_id = firm_id /\ table[i].integration_id = integration_id})

find_by_email_address(table, email_address, firm_id) ==
    FirstRow({i \in 1..Len(table) :
                 table[i].email = email_address /\ table[i].firm_id = firm_id})

find_by_phone_number_firm(table, phone_number, firm_id) ==
    FirstRow({i \in 1..Len(table) :
                 table[i].cell_phone = phone_number /\ table[i].firm_id = firm_id})

\* The user store.  Both lookups are placeholders in helper.py and
\* repositories.py; they are modelled over the accounts in `users`.
\* An account is <<email, phone>>.
identify_orphaned_user_by_phone_number(accounts, phone_number) ==
    IF \E u \in accounts : u[2] = phone_number
    THEN CHOOSE u \in accounts : u[2] = phone_number
    ELSE None

UserRepository_find_by_email_address(accounts, email_address) ==
    IF \E u \in accounts : u[1] = email_address
    THEN CHOOSE u \in accounts : u[1] = email_address
    ELSE None

---------------------------------------------------------------------------
(* services.py: the pure steps.                                            *)

\* ImportCaseHelper.parse_cell_phone_number
parse_cell_phone_number(number, firm) ==
    IF ~Truthy(number) \/ Contains(Lower(Str(number)), <<"i","n","v","a","l","i","d">>)
    THEN FALSE
    ELSE TRUE

\* helper.filter_cell_phone_numbers
filter_cell_phone_numbers(phone_numbers, firm) ==
    SelectSeq(phone_numbers, LAMBDA number : parse_cell_phone_number(number, firm))

process_phone_numbers(phone_numbers_in, firm) ==
    LET phone_numbers == IF phone_numbers_in = NoList THEN <<>> ELSE phone_numbers_in
        filtered == filter_cell_phone_numbers(phone_numbers, firm)
    IN  [filtered_numbers |-> filtered,
         primary_number   |-> IF filtered # <<>> THEN filtered[1] ELSE None,
         display_string   |-> Join(SelectNotNone(phone_numbers), <<",", " ">>)]

\* A deriver that prefers the combined name to the supplied names.
derive_names_PrefersCombined(client_name, first_name, last_name) ==
    IF Truthy(client_name)
    THEN LET split_name == Split(client_name, " ")
         IN  <<split_name[1],
               IF Len(split_name) > 1 THEN Join(Tail(split_name), <<" ">>)
               ELSE last_name>>
    ELSE <<first_name, last_name>>

\* derive_names: <<first, last>>
derive_names(client_name, first_name, last_name) ==
    IF Truthy(first_name) /\ Truthy(last_name)
    THEN <<first_name, last_name>>
    ELSE IF Truthy(client_name) /\ (~Truthy(first_name) \/ ~Truthy(last_name))
    THEN LET split_name    == Split(client_name, " ")
             derived_first == split_name[1]
             derived_last  == IF Len(split_name) > 1
                              THEN Join(Tail(split_name), <<" ">>)
                              ELSE None
         IN  <<Or(first_name, derived_first), Or(last_name, derived_last)>>
    ELSE <<first_name, last_name>>

extract_client_data(field_names) ==
    [first_name    |-> field_names.first_name,
     last_name     |-> field_names.last_name,
     client_name   |-> field_names.name,
     email         |-> field_names.email,
     phone_numbers |-> IF field_names.phone_numbers = NoList
                       THEN <<>> ELSE field_names.phone_numbers,
     client_type   |-> field_names.type,
     company_name  |-> IF field_names.type = <<"Company">>
                       THEN field_names.first_name ELSE None,
     birth_date    |-> field_names.birth_date,
     ssn           |-> field_names.ssn]

\* A validator that accepts every record.
validate_client_input_AlwaysValid(client_data, firm, integration_type, filtered_cell_phone_numbers) ==
    [is_valid |-> TRUE, error_message |-> None, error_fields |-> None]

\* A validator that asks every integration type for the first name only.
validate_client_input_FirstNameOnly(client_data, firm, integration_type, filtered_cell_phone_numbers) ==
    LET phone_numbers == client_data.phone_numbers
        cell_phone_display ==
            IF phone_numbers # <<>>
            THEN Join(SelectNotNone(phone_numbers), <<",", " ">>)
            ELSE <<"<None>">>
    IN  IF ~Truthy(client_data.first_name)
        THEN [is_valid |-> FALSE, error_message |-> CLIENT_MISSING_NAME,
              error_fields |-> <<"client_first_name">>]
        ELSE IF ~firm.is_corporate /\ filtered_cell_phone_numbers = <<>>
        THEN [is_valid |-> FALSE,
              error_message |-> CELL_PHONE_INVALID(cell_phone_display),
              error_fields |-> <<"client_cell_phone">>]
        ELSE [is_valid |-> TRUE, error_message |-> None, error_fields |-> None]

\* A validator that checks the phones before the names.
validate_client_input_PhoneFirst(client_data, firm, integration_type, filtered_cell_phone_numbers) ==
    LET first_name == client_data.first_name
        last_name  == client_data.last_name
        missing_fields ==
            (IF ~Truthy(first_name) THEN <<"client_first_name">> ELSE <<>>)
            \o (IF ~Truthy(last_name) THEN <<"client_last_name">> ELSE <<>>)
        phone_numbers == client_data.phone_numbers
        cell_phone_display ==
            IF phone_numbers # <<>>
            THEN Join(SelectNotNone(phone_numbers), <<",", " ">>)
            ELSE <<"<None>">>
    IN  IF ~firm.is_corporate /\ filtered_cell_phone_numbers = <<>>
        THEN [is_valid |-> FALSE,
              error_message |-> CELL_PHONE_INVALID(cell_phone_display),
              error_fields |-> <<"client_cell_phone">>]
        ELSE IF integration_type \in {CSV_IMPORT, THIRD_PARTY} /\ missing_fields # <<>>
        THEN [is_valid |-> FALSE, error_message |-> CLIENT_MISSING_NAME,
              error_fields |-> missing_fields]
        ELSE IF integration_type \notin {CSV_IMPORT, THIRD_PARTY} /\ ~Truthy(first_name)
        THEN [is_valid |-> FALSE, error_message |-> CLIENT_MISSING_NAME,
              error_fields |-> <<"client_first_name">>]
        ELSE [is_valid |-> TRUE, error_message |-> None, error_fields |-> None]

validate_client_input(client_data, firm, integration_type, filtered_cell_phone_numbers) ==
    LET first_name == client_data.first_name
        last_name  == client_data.last_name
        missing_fields ==
            (IF ~Truthy(first_name) THEN <<"client_first_name">> ELSE <<>>)
            \o (IF ~Truthy(last_name) THEN <<"client_last_name">> ELSE <<>>)
        phone_numbers == client_data.phone_numbers
        cell_phone_display ==
            IF phone_numbers # <<>>
            THEN Join(SelectNotNone(phone_numbers), <<",", " ">>)
            ELSE <<"<None>">>
    IN  IF integration_type \in {CSV_IMPORT, THIRD_PARTY} /\ missing_fields # <<>>
        THEN [is_valid |-> FALSE, error_message |-> CLIENT_MISSING_NAME,
              error_fields |-> missing_fields]
        ELSE IF integration_type \notin {CSV_IMPORT, THIRD_PARTY} /\ ~Truthy(first_name)
        THEN [is_valid |-> FALSE, error_message |-> CLIENT_MISSING_NAME,
              error_fields |-> <<"client_first_name">>]
        ELSE IF ~firm.is_corporate /\ filtered_cell_phone_numbers = <<>>
        THEN [is_valid |-> FALSE,
              error_message |-> CELL_PHONE_INVALID(cell_phone_display),
              error_fields |-> <<"client_cell_phone">>]
        ELSE [is_valid |-> TRUE, error_message |-> None, error_fields |-> None]

\* One collaborator call in the trace of an invocation.
Op(name, arg) == [op |-> name, arg |-> arg]

RECURSIVE PhoneLookup_NoStop(_, _, _)
\* A phone lookup that goes through the whole list and keeps the last hit.
PhoneLookup_NoStop(table, firm_id, numbers) ==
    IF numbers = <<>> THEN <<0, None, <<>>>>
    ELSE LET hit  == find_by_phone_number_firm(table, numbers[1], firm_id)
             call == <<Op("find_by_phone_number_firm", numbers[1])>>
             rest == PhoneLookup_NoStop(table, firm_id, Tail(numbers))
         IN  IF rest[1] # 0 THEN <<rest[1], rest[2], call \o rest[3]>>
             ELSE IF hit # 0 THEN <<hit, numbers[1], call \o rest[3]>>
             ELSE <<0, None, call \o rest[3]>>

RECURSIVE PhoneLookup(_, _, _)
\* Strategy 3: <<client id or 0, matched phone, the lookups made>>
PhoneLookup(table, firm_id, numbers) ==
    IF numbers = <<>> THEN <<0, None, <<>>>>
    ELSE LET hit  == find_by_phone_number_firm(table, numbers[1], firm_id)
             call == <<Op("find_by_phone_number_firm", numbers[1])>>
         IN  IF hit # 0 THEN <<hit, numbers[1], call>>
             ELSE LET rest == PhoneLookup(table, firm_id, Tail(numbers))
                  IN  <<rest[1], rest[2], call \o rest[3]>>

RECURSIVE OrphanLookup(_, _)
\* Strategy 4: <<orphaned user or None, the lookups made>>
OrphanLookup(accounts, numbers) ==
    IF numbers = <<>> THEN <<None, <<>>>>
    ELSE LET hit  == identify_orphaned_user_by_phone_number(accounts, numbers[1])
             call == <<Op("identify_orphaned_user_by_phone_number", numbers[1])>>
         IN  IF hit # None THEN <<hit, call>>
             ELSE LET rest == OrphanLookup(accounts, Tail(numbers))
                  IN  <<rest[1], call \o rest[2]>>

\* find_existing_client: client is the id of the matched row, 0 for None.
find_existing_client(table, accounts, firm, integration_id, client_email_address, filtered_cell_phone_numbers) ==
    LET by_id    == IF Truthy(integration_id)
                    THEN find_by_integration_id(table, firm.id, integration_id)
                    ELSE 0
        id_ops   == IF Truthy(integration_id)
                    THEN <<Op("find_by_integration_id", integration_id)>> ELSE <<>>
        try_mail == firm.is_corporate /\ Truthy(client_email_address)
        by_email == IF try_mail
                    THEN find_by_email_address(table, client_email_address, firm.id)
                    ELSE 0
        mail_ops == IF try_mail
                    THEN <<Op("find_by_email_address", client_email_address)>> ELSE <<>>
        by_phone == PhoneLookup(table, firm.id, filtered_cell_phone_numbers)
        orphan   == OrphanLookup(accounts, filtered_cell_phone_numbers)
    IN  IF by_id # 0
        THEN [client |-> by_id, orphaned_user |-> None, matched_phone |-> None,
              ops |-> id_ops]
        ELSE IF by_email # 0
        THEN [client |-> by_email, orphaned_user |-> None, matched_phone |-> None,
              ops |-> id_ops \o mail_ops]
        ELSE IF by_phone[1] # 0
        THEN [client |-> by_phone[1], orphaned_user |-> None,
              matched_phone |-> by_phone[2],
              ops |-> id_ops \o mail_ops \o by_phone[3]]
        ELSE [client |-> 0, orphaned_user |-> orphan[1], matched_phone |-> None,
              ops |-> id_ops \o mail_ops \o by_phone[3] \o orphan[2]]

---------------------------------------------------------------------------
(* The SQLAlchemy session of one invocation.                               *)
(*   st: "none" (no client object), "transient" (not in the session),      *)
(*       "pending" (added, not yet inserted), "persistent" (row oid).      *)

\* The message of the constraint a write of obj as row oid (0: a new row)
\* would break, or None.
ConstraintError(table, obj, oid) ==
    IF \E k \in 1..Len(NotNullColumns) : obj[NotNullColumns[k]] = None
    THEN LET k == CHOOSE j \in 1..Len(NotNullColumns) :
                      /\ obj[NotNullColumns[j]] = None
                      /\ \A h \in 1..(j - 1) : obj[NotNullColumns[h]] # None
         IN  <<"NOT NULL constraint failed: client.", NotNullColumns[k]>>
    ELSE IF \E col \in UniqueColumns :
                /\ obj[col] # None
                /\ \E i \in 1..Len(table) : i # oid /\ table[i][col] = obj[col]
    THEN <<"UNIQUE constraint failed: client.email">>
    ELSE None

ExpectedErrorMarkers ==
    {"uq_sub_users_type_firm_id_user_id",
     "The email or phone number you entered is already in use"}

\* The failure a fault of the store raises.
FaultError(fault) ==
    IF fault = "expected"
    THEN <<"(psycopg2.errors.UniqueViolation) ",
           "The email or phone number you entered is already in use">>
    ELSE <<"(OperationalError) ", "database is unavailable">>

\* session.commit(): flush the client object, unless the store fails.
session_commit(s, plan) ==
    LET k     == s.ncommit + 1
        fault == IF k <= Len(plan) THEN plan[k] ELSE "ok"
        write == \/ s.st = "pending"
                 \/ s.st = "persistent" /\ s.obj # s.table[s.oid]
        err   == IF fault # "ok" THEN FaultError(fault)
                 ELSE IF write
                 THEN ConstraintError(s.table, s.obj,
                                      IF s.st = "pending" THEN 0 ELSE s.oid)
                 ELSE None
        s1    == [s EXCEPT !.ncommit = k, !.ops = Append(@, Op("commit", None))]
    IN  IF err # None THEN [s1 EXCEPT !.err = err]
        ELSE IF s.st = "pending"
        THEN [s1 EXCEPT !.table = Append(@, s.obj), !.st = "persistent",
                        !.oid = Len(s.table) + 1]
        ELSE IF s.st = "persistent"
        THEN [s1 EXCEPT !.table[s.oid] = s.obj]
        ELSE s1

\* A rollback that is never issued.
session_rollback_NotIssued(s) == s

\* session.rollback(): a pending object leaves the session, a persistent one
\* is read again from its row.
session_rollback(s) ==
    LET s1 == [s EXCEPT !.ops = Append(@, Op("rollback", None))]
    IN  IF s.st = "pending" THEN [s1 EXCEPT !.st = "transient"]
        ELSE IF s.st = "persistent" THEN [s1 EXCEPT !.obj = s.table[s.oid]]
        ELSE s1

\* ClientRepository.save: session.add, session.commit.
save(s, plan) ==
    session_commit(
        [s EXCEPT !.ops = Append(@, Op("save", None)),
                  !.st = IF @ = "transient" THEN "pending" ELSE @],
        plan)

\* helper._update_client: <<session, updated>>
update_client(s, client_data_to_update, plan) ==
    LET set     == {f \in DOMAIN client_data_to_update :
                        f \in ClientFields /\ client_data_to_update[f] # None}
        updated == set # {}
        s1      == [s EXCEPT !.ops = Append(@, Op("_update_client", None)),
                             !.obj = [f \in DOMAIN s.obj |->
                                         IF f \in set THEN client_data_to_update[f]
                                         ELSE s.obj[f]]]
    IN  IF updated THEN <<session_commit(s1, plan), updated>> ELSE <<s1, updated>>

---------------------------------------------------------------------------
(* services.py: ImportCaseHelper.import_client_handler                     *)

\* A key the dict does not hold.
Absent == <<"%Absent%">>

\* The contact patch without the removal of a falsy cell_phone.
ContactInfoPatch_KeepsEmptyCell(field_names) ==
    LET keys == {f \in {CLIENT_CONTACT_INFO_FIELD_NAMES[i] :
                           i \in 1..Len(CLIENT_CONTACT_INFO_FIELD_NAMES)} :
                    field_names[f] # None}
    IN  [f \in keys |-> field_names[f]]

\* The missing-data patch without the test of the stored value.
MissingDataPatch_Unguarded(field_names, client_instance) ==
    LET keys == {f \in {"birth_date", "ssn", "integration_id"} :
                    field_names[f] # None}
    IN  [f \in keys |-> field_names[f]]

\* The patch of the update path: the contact fields, then the missing data.
ContactInfoPatch(field_names) ==
    LET keys == {f \in {CLIENT_CONTACT_INFO_FIELD_NAMES[i] :
                           i \in 1..Len(CLIENT_CONTACT_INFO_FIELD_NAMES)} :
                    field_names[f] # None}
        kept == IF "cell_phone" \in keys /\ ~Truthy(field_names["cell_phone"])
                THEN keys \ {"cell_phone"} ELSE keys
    IN  [f \in kept |-> field_names[f]]

MissingDataPatch(field_names, client_instance) ==
    LET keys == {f \in {"birth_date", "ssn", "integration_id"} :
                    field_names[f] # None /\ ~Truthy(client_instance[f])}
    IN  [f \in keys |-> field_names[f]]

\* A patch built without looking at the firm's switches.
BuildPatch_IgnoresFlags(field_names, client_instance, should_sync_contact_info, should_update_missing_data) ==
    MissingDataPatch(field_names, client_instance) @@ ContactInfoPatch(field_names)

BuildPatch(field_names, client_instance, should_sync_contact_info, should_update_missing_data) ==
    LET contact == IF should_sync_contact_info
                   THEN ContactInfoPatch(field_names) ELSE <<>>
        missing == IF should_update_missing_data
                   THEN MissingDataPatch(field_names, client_instance) ELSE <<>>
        both    == missing @@ contact
    IN  [f \in DOMAIN both |-> IF f = "ssn" THEN encrypt_ssn(both[f]) ELSE both[f]]

\* A read of the settings that takes an absent setting as enabled.
settings_get_DefaultOn(integration_settings, key) ==
    IF key \in DOMAIN integration_settings THEN integration_settings[key] ELSE TRUE

\* firm.integration_settings.get(key, False)
settings_get(integration_settings, key) ==
    IF key \in DOMAIN integration_settings THEN integration_settings[key] ELSE FALSE

\* Lines 392-434: the update block, run on whatever client_instance holds.
\* h is the invocation so far: the session s, the row, the flags.
UpdateBlock(h, a, field_names) ==
    LET sync    == settings_get(a.firm.integration_settings, "sync_client_contact_info")
        missing == settings_get(a.firm.integration_settings, "update_client_missing_data")
        patch   == BuildPatch(field_names, h.s.obj, sync, missing)
        applied == IF DOMAIN patch # {}
                   THEN update_client(h.s, patch, a.faults)
                   ELSE <<h.s, FALSE>>
        s1      == applied[1]
        updated == applied[2]
        h1      == [h EXCEPT !.s = s1, !.patch = patch, !.patch_built = TRUE]
        h2      == IF updated
                   THEN [h1 EXCEPT !.updated_client = TRUE,
                                   !.row.success_msg = CLIENT_UPDATED]
                   ELSE h1
        s3      == IF ~a.validation THEN save(s1, a.faults) ELSE s1
    IN  IF ~(sync \/ missing) THEN h
        ELSE IF s1.err # None THEN [h1 EXCEPT !.raised = s1.err]
        ELSE IF s3.err # None THEN [h2 EXCEPT !.s = s3, !.raised = s3.err]
        ELSE [h2 EXCEPT !.s = s3]

\* The new Client with the integration id taken from the record's fields.
BuildClient_IdFromRecord(a, first_name, last_name, email_address, primary_number) ==
    [NewClient EXCEPT
        !.firm_id = a.firm.id,
        !.first_name = first_name,
        !.last_name = last_name,
        !.email = email_address,
        !.integration_id = a.field_names.integration_id,
        !.cell_phone = primary_number,
        !.birth_date = IF Truthy(a.field_names.birth_date)
                       THEN a.field_names.birth_date ELSE @,
        !.ssn = IF Truthy(a.field_names.ssn)
                THEN encrypt_ssn(a.field_names.ssn) ELSE @]

\* The new Client with the first raw phone number, filtered or not.
BuildClient_RawPhone(a, first_name, last_name, email_address, primary_number) ==
    [NewClient EXCEPT
        !.firm_id = a.firm.id,
        !.first_name = first_name,
        !.last_name = last_name,
        !.email = email_address,
        !.integration_id = a.integration_id,
        !.cell_phone = IF a.field_names.phone_numbers \in {NoList, <<>>}
                       THEN None ELSE a.field_names.phone_numbers[1],
        !.birth_date = IF Truthy(a.field_names.birth_date)
                       THEN a.field_names.birth_date ELSE @,
        !.ssn = IF Truthy(a.field_names.ssn)
                THEN encrypt_ssn(a.field_names.ssn) ELSE @]

\* Lines 353-365: the new Client and its columns.
BuildClient(a, first_name, last_name, email_address, primary_number) ==
    [NewClient EXCEPT
        !.firm_id = a.firm.id,
        !.first_name = first_name,
        !.last_name = last_name,
        !.email = email_address,
        !.integration_id = a.integration_id,
        !.cell_phone = primary_number,
        !.birth_date = IF Truthy(a.field_names.birth_date)
                       THEN a.field_names.birth_date ELSE @,
        !.ssn = IF Truthy(a.field_names.ssn)
                THEN encrypt_ssn(a.field_names.ssn) ELSE @]

\* Lines 337-390: the create block.
CreateBlock(h, a, accounts, first_name, last_name, primary_number, orphaned_user) ==
    LET client_email_address == a.field_names.email
        user == IF orphaned_user # None THEN orphaned_user
                ELSE UserRepository_find_by_email_address(accounts, client_email_address)
        user_ops == IF orphaned_user # None THEN <<>>
                    ELSE <<Op("UserRepository.find_by_email_address",
                              client_email_address)>>
        email_address == IF orphaned_user # None THEN None
                         ELSE IF user = None THEN client_email_address ELSE None
        client_instance == BuildClient(a, first_name, last_name, email_address,
                                       primary_number)
        s0 == [h.s EXCEPT !.obj = client_instance, !.st = "transient",
                          !.ops = @ \o user_ops]
        s1 == IF ~a.validation THEN save(s0, a.faults) ELSE s0
        s2 == [session_rollback(s1) EXCEPT !.err = None]
    IN  IF s1.err = None
        THEN [h EXCEPT !.s = s1, !.created_client = TRUE, !.built = client_instance]
        ELSE [h EXCEPT !.s = s2, !.built = client_instance, !.create_error = s1.err,
                 !.row.error_message =
                     IF \E i \in 1..Len(s1.err) : s1.err[i] \in ExpectedErrorMarkers
                     THEN USER_ALREADY_EXISTS(client_email_address, primary_number)
                     ELSE s1.err]

\* The handler from line 254 on, given what find_existing_client (line 304)
\* returned.
HandlerWith(table, accounts, a, lookup_result) ==
    LET firm         == a.firm
        log_ops      == IF a.integration_response_object /\ ~a.validation
                        THEN <<Op("log_integration_response", None)>> ELSE <<>>
        client_data  == extract_client_data(a.field_names)
        phone_result == process_phone_numbers(client_data.phone_numbers, firm)
        filtered_cell_phone_numbers == phone_result.filtered_numbers
        primary_number == phone_result.primary_number
        derived      == derive_names(client_data.client_name, client_data.first_name,
                                     client_data.last_name)
        derived_first == derived[1]
        derived_last  == derived[2]
        \* the caller's field_names dict, mutated in place
        field_names  == [a.field_names EXCEPT
                            !.first_name = IF Truthy(derived_first) /\ ~Truthy(@)
                                           THEN derived_first ELSE @,
                            !.last_name  = IF Truthy(derived_last) /\ ~Truthy(@)
                                           THEN derived_last ELSE @]
        first_name   == derived_first
        last_name    == derived_last
        client_email_address == client_data.email
        row0 == [email |-> client_email_address, first_name |-> first_name,
                 last_name |-> last_name, cell_phone |-> phone_result.display_string,
                 error_fields |-> Absent, error_message |-> Absent,
                 success_msg |-> Absent]
        company_name == IF Truthy(client_data.company_name) THEN client_data.company_name
                        ELSE IF client_data.client_type # <<"Company">> THEN None
                        ELSE Absent
        orphaned_user == lookup_result.orphaned_user
        found        == lookup_result.client # 0
        row1 == IF Truthy(lookup_result.matched_phone)
                THEN [row0 EXCEPT !.cell_phone = lookup_result.matched_phone] ELSE row0
        validation_result ==
            validate_client_input(
                [client_data EXCEPT !.first_name = first_name, !.last_name = last_name],
                firm, a.integration_type, filtered_cell_phone_numbers)
        h0 == [returned |-> TRUE, raised |-> None,
               created_client |-> FALSE, updated_client |-> FALSE,
               company_name |-> company_name, row |-> row1,
               field_names |-> field_names,
               lookup |-> lookup_result, validated |-> FALSE,
               built |-> NewClient, create_error |-> None,
               patch |-> <<>>, patch_built |-> FALSE,
               s |-> [table |-> table,
                      obj |-> IF found THEN table[lookup_result.client] ELSE NewClient,
                      st |-> IF found THEN "persistent" ELSE "none",
                      oid |-> lookup_result.client,
                      ops |-> log_ops \o lookup_result.ops,
                      ncommit |-> 0, err |-> None]]
        unmatched == ~found /\ orphaned_user = None
        h1 == IF ~found /\ a.create_new_client
              THEN CreateBlock(h0, a, accounts, first_name, last_name, primary_number,
                               orphaned_user)
              ELSE h0
        h2 == IF h1.s.st # "none" THEN UpdateBlock(h1, a, field_names) ELSE h1
    IN  IF unmatched /\ ~validation_result.is_valid
        THEN [h0 EXCEPT !.validated = TRUE,
                        !.row.error_fields = validation_result.error_fields,
                        !.row.error_message = validation_result.error_message]
        ELSE IF unmatched /\ ~a.create_new_client
        THEN [h0 EXCEPT !.validated = TRUE,
                        !.row.error_message = CLIENT_NOT_FOUND_STOP_ZAP]
        ELSE [h2 EXCEPT !.validated = unmatched,
                        !.returned = (h2.raised = None)]

import_client_handler(table, accounts, a) ==
    LET client_data == extract_client_data(a.field_names)
        phone_result == process_phone_numbers(client_data.phone_numbers, a.firm)
        derived == derive_names(client_data.client_name, client_data.first_name,
                                client_data.last_name)
    IN  HandlerWith(table, accounts, a,
            find_existing_client(table, accounts, a.firm, a.integration_id,
                                 client_data.email, phone_result.filtered_numbers))

---------------------------------------------------------------------------
(* The values the invocations are drawn from.                              *)

Ann  == <<"A", "n">>
Lee  == <<"L", "e">>
BoRa == <<"B", "o", " ", "R", "a">>
Cy   == <<"C", "y">>
BoRaLi == <<"B", "o", " ", "R", "a", " ", "L", "i">>
E1   == <<"a@x.com">>
E2   == <<"b@x.com">>
E3   == <<"c@x.com">>
P1   == <<"5", "5", "1">>
P2   == <<"5", "5", "2">>
PBad == <<"I", "n", "v", "a", "l", "i", "d">>
X    == <<"int-X">>
Y    == <<"int-Y">>
D1   == <<"1990-01-01">>
D2   == <<"1995-06-30">>
S1   == <<"111-11-1111">>
S2   == <<"222-22-2222">>
F1   == <<"1">>
F2   == <<"2">>

\* The store's behaviour at the successive commits of one invocation.
NoFault == <<"ok", "ok", "ok">>
FaultPlans ==
    {NoFault, <<"expected", "ok", "ok">>, <<"other", "ok", "ok">>,
     <<"other", "other", "other">>}

Firm(is_corporate, sync, missing) ==
    [id |-> F1, is_corporate |-> is_corporate,
     integration_settings |-> [sync_client_contact_info |-> sync,
                               update_client_missing_data |-> missing]]

BaseFields ==
    [first_name |-> Ann, last_name |-> Lee, name |-> None, email |-> E1,
     phone_numbers |-> <<P1>>, type |-> None, birth_date |-> None, ssn |-> None,
     cell_phone |-> None, integration_id |-> None]

BaseRequest ==
    [firm |-> Firm(FALSE, TRUE, TRUE), field_names |-> BaseFields,
     integration_type |-> CSV_IMPORT, integration_id |-> X,
     integration_response_object |-> FALSE,
     create_new_client |-> TRUE, validation |-> FALSE, faults |-> NoFault]

\* Who is imported, under which switches and store behaviour.
ControlRequests ==
    {[BaseRequest EXCEPT
        !.firm = Firm(corp, flags, flags),
        !.create_new_client = create,
        !.validation = mode[1],
        !.faults = mode[2],
        !.field_names.email = contact[1],
        !.field_names.phone_numbers = contact[2]] :
        corp \in BOOLEAN, flags \in BOOLEAN, create \in BOOLEAN,
        mode \in ({FALSE} \X FaultPlans) \cup {<<TRUE, NoFault>>},
        contact \in {<<E1, <<P1>>>>, <<E2, <<P1>>>>, <<E1, <<P2, P1>>>>,
                     <<E1, <<P1, P2>>>>}}

\* The names, against the validator of each integration type.
NameRequests ==
    {[BaseRequest EXCEPT
        !.firm = Firm(corp, TRUE, TRUE),
        !.integration_type = kind,
        !.integration_response_object = TRUE,
        !.field_names.first_name = first,
        !.field_names.last_name = last,
        !.field_names.name = name,
        !.field_names.type = IF first = Ann /\ corp THEN <<"Company">> ELSE None,
        !.field_names.phone_numbers = <<PBad, P1>>] :
        corp \in BOOLEAN, kind \in {CSV_IMPORT, THIRD_PARTY, MYCASE, None},
        first \in {None, Ann}, last \in {None, Lee}, name \in {None, BoRa, Cy, BoRaLi}}

\* The phone lists, against the filter and the validator.
PhoneRequests ==
    {[BaseRequest EXCEPT
        !.firm = Firm(corp, TRUE, TRUE),
        !.integration_type = kind,
        !.create_new_client = create,
        !.field_names.first_name = first,
        !.field_names.phone_numbers = phones] :
        corp \in BOOLEAN, kind \in {CSV_IMPORT, THIRD_PARTY},
        create \in BOOLEAN, first \in {None, Ann},
        phones \in {NoList, <<>>, <<None>>, <<PBad, P1>>, <<None, PBad>>}}

\* The data an update merges.
MergeRequests ==
    {[BaseRequest EXCEPT
        !.firm = Firm(FALSE, sync, missing),
        !.integration_id = ids[1],
        !.field_names.integration_id = ids[2],
        !.field_names.cell_phone = cell,
        !.field_names.birth_date = data[1],
        !.field_names.ssn = data[2]] :
        sync \in BOOLEAN, missing \in BOOLEAN,
        ids \in {<<X, None>>, <<X, Y>>, <<<<>>, Y>>},
        cell \in {None, <<>>, P2, PBad},
        data \in {<<None, None>>, <<D1, S1>>, <<D2, S2>>}}

\* The same records imported for a second firm.
FirmRequests ==
    {[BaseRequest EXCEPT
        !.firm = [Firm(corp, TRUE, TRUE) EXCEPT !.id = F2],
        !.integration_id = iid,
        !.create_new_client = create,
        !.field_names.email = contact[1],
        !.field_names.phone_numbers = contact[2]] :
        corp \in BOOLEAN, iid \in {None, X}, create \in BOOLEAN,
        contact \in {<<E1, <<P1>>>>, <<E2, <<P1>>>>, <<None, <<P2, P1>>>>}}

\* Firms whose settings dict lacks one or both of the switches.
SettingsRequests ==
    {[BaseRequest EXCEPT
        !.firm.integration_settings = settings,
        !.validation = dry,
        !.field_names.birth_date = data[1],
        !.field_names.ssn = data[2]] :
        settings \in {<<>>, [update_client_missing_data |-> TRUE]},
        dry \in BOOLEAN,
        data \in {<<None, None>>, <<D1, S1>>}}

\* Records with empty names, with and without an account for their phone.
OrphanRequests ==
    {[BaseRequest EXCEPT
        !.firm = Firm(FALSE, flags, flags),
        !.integration_type = kind,
        !.field_names.first_name = first,
        !.field_names.phone_numbers = phones] :
        flags \in BOOLEAN, kind \in {CSV_IMPORT, MYCASE},
        first \in {None, <<>>}, phones \in {<<P1>>, <<P2>>}}

Requests ==
    ControlRequests \cup NameRequests \cup PhoneRequests \cup MergeRequests
    \cup FirmRequests \cup SettingsRequests \cup OrphanRequests

NoRequest == BaseRequest

NoOutcome == import_client_handler(<<>>, {}, BaseRequest)

\* The requests that may overlap: one firm, an integration id and a contact.
Workers == {1, 2}

OverlappingRequests ==
    {[BaseRequest EXCEPT
        !.integration_id = iid,
        !.create_new_client = create,
        !.validation = dry,
        !.field_names.email = contact[1],
        !.field_names.phone_numbers = contact[2]] :
        iid \in {X, Y}, create \in BOOLEAN, dry \in BOOLEAN,
        contact \in {<<E1, <<P1>>>>, <<E3, <<P2>>>>, <<None, <<P1>>>>}}

---------------------------------------------------------------------------
(* The system: one reconciliation at a time, each run to its end.          *)

Init ==
    /\ clients = <<>>
    /\ users = {<<E2, P2>>}
    /\ ncalls = 0
    /\ pc = "idle"
    /\ req = NoRequest
    /\ out = NoOutcome
    /\ pre = <<>>
    /\ wpc = [w \in Workers |-> "idle"]
    /\ wreq = [w \in Workers |-> NoRequest]
    /\ wlook = [w \in Workers |-> NoOutcome.lookup]
    /\ wout = [w \in Workers |-> NoOutcome]

\* ImportCaseHelper.import_client_handler(session, firm, {}, field_names, ...)
Reconcile ==
    /\ pc = "idle"
    /\ ncalls < MaxCalls
    /\ \E a \in Requests : req' = a
    /\ out' = import_client_handler(clients, users, req')
    /\ clients' = out'.s.table
    /\ pre' = clients
    /\ ncalls' = ncalls + 1
    /\ pc' = "returned"
    /\ UNCHANGED <<users, wpc, wreq, wlook, wout>>

\* The caller takes the outcome; the request's row, results and session go.
EndRequest ==
    /\ pc = "returned"
    /\ pc' = "idle"
    /\ req' = NoRequest
    /\ out' = NoOutcome
    /\ pre' = <<>>
    /\ UNCHANGED <<clients, users, ncalls, wpc, wreq, wlook, wout>>

Next == Reconcile \/ EndRequest

Spec == Init /\ [][Next]_vars

---------------------------------------------------------------------------
(* Two requests at once (app.py serves each PATCH with the one handler and *)
(* the shared database): each reads the store in find_existing_client and  *)
(* writes it later, at its commits; the other may commit in between.       *)

\* services.py 304-307: the lookup of request w, on the store as it is now.
Lookup(w) ==
    /\ wpc[w] = "idle"
    /\ \E a \in OverlappingRequests :
          LET client_data == extract_client_data(a.field_names)
              phone_result == process_phone_numbers(client_data.phone_numbers, a.firm)
          IN  /\ wreq' = [wreq EXCEPT ![w] = a]
              /\ wlook' = [wlook EXCEPT ![w] =
                              find_existing_client(clients, users, a.firm,
                                  a.integration_id, client_data.email,
                                  phone_result.filtered_numbers)]
    /\ wpc' = [wpc EXCEPT ![w] = "found"]
    /\ UNCHANGED <<clients, users, ncalls, pc, req, out, pre, wout>>

\* services.py 309-442: the rest of request w, on the store as it is by then.
Finish(w) ==
    /\ wpc[w] = "found"
    /\ LET o == HandlerWith(clients, users, wreq[w], wlook[w])
       IN  /\ wout' = [wout EXCEPT ![w] = o]
           /\ clients' = o.s.table
    /\ wpc' = [wpc EXCEPT ![w] = "returned"]
    /\ UNCHANGED <<users, ncalls, pc, req, out, pre, wreq, wlook>>

NextConc == \E w \in Workers : Lookup(w) \/ Finish(w)

SpecConc == Init /\ [][NextConc]_vars

---------------------------------------------------------------------------
(* What an ended invocation shows.                                         *)

Ended == pc = "returned"

\* The handler returned its results (no exception left it).
Returned == Ended /\ out.returned

HasError == out.row.error_message # Absent

Calls(name) == {i \in 1..Len(out.s.ops) : out.s.ops[i].op = name}

Issued(name) == Calls(name) # {}

\* A client was matched by find_existing_client.
Matched == out.lookup.client # 0

\* A commit of this invocation failed: on the create path (caught) or on the
\* update path.
StoreFailed == out.create_error # None \/ out.s.err # None

\* The firm of the request has the setting, and it is on.
SyncOn ==
    /\ "sync_client_contact_info" \in DOMAIN req.firm.integration_settings
    /\ req.firm.integration_settings["sync_client_contact_info"]

MissingOn ==
    /\ "update_client_missing_data" \in DOMAIN req.firm.integration_settings
    /\ req.firm.integration_settings["update_client_missing_data"]

---------------------------------------------------------------------------
(* C1: every returned outcome is exactly one of: client created, client    *)
(* updated, rejected with an error message; never two, never none.         *)
C1_ExactlyOneOutcome ==
    Returned =>
        \/ out.created_client /\ ~out.updated_client /\ ~HasError
        \/ ~out.created_client /\ out.updated_client /\ ~HasError
        \/ ~out.created_client /\ ~out.updated_client /\ HasError

(* C2: when a save or commit fails, on the create or on the update path,   *)
(* the handler still returns and the row carries the error; the failure    *)
(* never leaves the handler.                                               *)
C2_StoreFailureIsReturned ==
    Ended /\ StoreFailed => out.returned /\ out.raised = None /\ HasError

(* C3: a dry run (validation = True) issues no save, commit or rollback    *)
(* and leaves every stored client as it was.                               *)
C3_DryRunWritesNothing ==
    Ended /\ req.validation =>
        /\ ~Issued("save") /\ ~Issued("commit") /\ ~Issued("rollback")
        /\ clients = pre

(* C4: a create whose save fails is rolled back and leaves nothing: the    *)
(* store holds no client that was not there before, and the outcome        *)
(* reports neither created nor updated.                                    *)
C4_FailedCreateLeavesNothing ==
    Ended /\ out.create_error # None =>
        /\ Issued("rollback")
        /\ Len(clients) = Len(pre)
        /\ out.returned => ~out.created_client /\ ~out.updated_client

(* C5: an update never turns a stored cell phone that is not null into    *)
(* null or empty: with sync_client_contact_info on and an incoming cell    *)
(* phone that is absent, null or empty, the patch has no cell_phone key.   *)
C5_CellPhoneNeverNulled ==
    Ended =>
        /\ \A i \in 1..Len(pre) :
              pre[i].cell_phone # None =>
                  \/ clients[i].cell_phone = pre[i].cell_phone
                  \/ Truthy(clients[i].cell_phone)
        /\ out.patch_built /\ SyncOn /\ ~Truthy(req.field_names.cell_phone)
              => "cell_phone" \notin DOMAIN out.patch

\* A matched client with a phone is updated from a record whose cell phone
\* is the empty string.
C5_Witness ==
    /\ Ended /\ Matched /\ SyncOn /\ out.updated_client
    /\ req.field_names.cell_phone = <<>>
    /\ Truthy(pre[out.lookup.client].cell_phone)

(* C6: a stored SSN that is not empty is never changed: with               *)
(* update_client_missing_data on, the patch holds the incoming SSN only    *)
(* when the stored one is empty.                                           *)
C6_SsnNeverOverwritten ==
    Ended =>
        /\ \A i \in 1..Len(pre) : Truthy(pre[i].ssn) => clients[i].ssn = pre[i].ssn
        /\ Matched /\ out.patch_built /\ "ssn" \in DOMAIN out.patch
              => MissingOn /\ ~Truthy(pre[out.lookup.client].ssn)

\* The second reconciliation brings another SSN for a client that has one.
C6_Witness ==
    /\ Ended /\ Matched /\ MissingOn /\ out.patch_built /\ out.updated_client
    /\ pre[out.lookup.client].ssn = S1
    /\ req.field_names.ssn = S2

C8_RepeatedUpdateReportsNoChange ==
    Returned /\ Matched /\ SyncOn /\ out.patch_built
    /\ (\A f \in DOMAIN out.patch : out.patch[f] = pre[out.lookup.client][f])
        => ~out.updated_client /\ out.row.success_msg = Absent

(* C10: round trip: once a reconciliation that is not a dry run has        *)
(* created a client with integration id X for firm F, the lookup by (F, X) *)
(* returns that client, and a reconciliation for F and X matches the       *)
(* stored client by integration id and creates no other.                   *)
C10_CreateThenLookupRoundTrip ==
    Ended /\ Truthy(req.integration_id) =>
        /\ out.created_client /\ ~req.validation =>
              /\ Len(clients) = Len(pre) + 1
              /\ find_by_integration_id(clients, req.firm.id, req.integration_id)
                     = Len(clients)
        /\ find_by_integration_id(pre, req.firm.id, req.integration_id) # 0 =>
              /\ out.lookup.client
                     = find_by_integration_id(pre, req.firm.id, req.integration_id)
              /\ out.lookup.ops = <<Op("find_by_integration_id", req.integration_id)>>
              /\ ~out.created_client
              /\ Len(clients) = Len(pre)

\* The second reconciliation carries the firm and integration id of the
\* client the first one created, and matches it.
C10_Witness ==
    /\ Ended /\ ncalls = 2 /\ Matched
    /\ req.integration_id = X
    /\ pre[out.lookup.client].integration_id = X
    /\ pre[out.lookup.client].firm_id = req.firm.id

(* C9: whatever the interleaving of two reconciliations of one firm that   *)
(* carry the same integration id, unseen before, the store rejects the     *)
(* conflicting create: no two stored clients ever share (firm id,          *)
(* integration id), and the invocation that loses returns an error.        *)
C9_ConcurrentCreatesRejected ==
    /\ \A i, j \in 1..Len(clients) :
          /\ i # j
          /\ clients[i].firm_id = clients[j].firm_id
          /\ clients[i].integration_id = clients[j].integration_id
          => FALSE
    /\ \A w, v \in Workers :
          /\ w # v
          /\ wpc[w] = "returned" /\ wpc[v] = "returned"
          /\ wreq[w].integration_id = wreq[v].integration_id
          /\ wlook[w].client = 0 /\ wlook[v].client = 0
          /\ wout[w].created_client /\ ~wreq[w].validation
          /\ wreq[v].create_new_client /\ ~wreq[v].validation
          => /\ wout[v].returned
             /\ wout[v].row.error_message # Absent
             /\ ~wout[v].created_client

---------------------------------------------------------------------------
(* What the request of an ended invocation carried, and what the store     *)
(* held for it when it began.                                              *)

\* The filtered phone list of the request (services.py 265-267).
Filtered ==
    process_phone_numbers(extract_client_data(req.field_names).phone_numbers,
                          req.firm).filtered_numbers

\* The derived names of the request (services.py 271-275).
Names ==
    derive_names(req.field_names.name, req.field_names.first_name,
                 req.field_names.last_name)

\* The stored clients of the firm with the supplied integration id.
IdRows ==
    {i \in 1..Len(pre) :
        /\ Truthy(req.integration_id)
        /\ pre[i].firm_id = req.firm.id
        /\ pre[i].integration_id = req.integration_id}

\* The stored clients of the firm with the supplied email.
EmailRows ==
    {i \in 1..Len(pre) :
        /\ Truthy(req.field_names.email)
        /\ pre[i].firm_id = req.firm.id
        /\ pre[i].email = req.field_names.email}

\* The positions of the filtered list whose number a client of the firm has.
PhoneHits ==
    {k \in 1..Len(Filtered) :
        \E i \in 1..Len(pre) :
            pre[i].firm_id = req.firm.id /\ pre[i].cell_phone = Filtered[k]}

FirstPhoneHit == CHOOSE k \in PhoneHits : \A j \in PhoneHits : k <= j

\* The phone lookups find_existing_client made, in order.
PhoneLookups ==
    SelectSeq(out.lookup.ops, LAMBDA o : o.op = "find_by_phone_number_firm")

(* C11: the matcher is a strict priority cascade: the email lookup is      *)
(* invoked only if no client was matched by integration id, the firm is    *)
(* corporate and an email was supplied; a record matchable by integration  *)
(* id is matched by it and the email lookup is never invoked.              *)
C11_PriorityCascade ==
    Ended =>
        /\ Issued("find_by_email_address") =>
              /\ IdRows = {}
              /\ req.firm.is_corporate
              /\ Truthy(req.field_names.email)
        /\ IdRows # {} =>
              /\ out.lookup.client \in IdRows
              /\ out.lookup.matched_phone = None
              /\ ~Issued("find_by_email_address")

\* A corporate firm's record that a stored client matches both by
\* integration id and by email.
C11_Witness ==
    /\ Ended /\ req.firm.is_corporate
    /\ IdRows # {} /\ EmailRows # {}
    /\ out.lookup.client \in IdRows

(* C12: when no client is matched by integration id or email, the phone    *)
(* lookup visits the filtered list in order and stops at the first number  *)
(* a client of the firm has: no later number is looked up, that client is  *)
(* the match and the row's cell_phone is exactly that number.              *)
C12_PhoneLookupStopsAtFirstHit ==
    /\ Ended
    /\ IdRows = {}
    /\ req.firm.is_corporate => EmailRows = {}
    /\ PhoneHits # {}
    => /\ PhoneLookups = [k \in 1..FirstPhoneHit |->
                             Op("find_by_phone_number_firm", Filtered[k])]
       /\ Matched
       /\ pre[out.lookup.client].firm_id = req.firm.id
       /\ pre[out.lookup.client].cell_phone = Filtered[FirstPhoneHit]
       /\ out.lookup.matched_phone = Filtered[FirstPhoneHit]
       /\ out.row.cell_phone = Filtered[FirstPhoneHit]

\* The first number of a list of two is a stored client's: the second is
\* not looked up.
C12_Witness ==
    /\ Ended /\ IdRows = {} /\ PhoneHits # {}
    /\ req.firm.is_corporate => EmailRows = {}
    /\ FirstPhoneHit < Len(Filtered)
    /\ Len(PhoneLookups) = FirstPhoneHit

---------------------------------------------------------------------------
(* The validator's rules, on the request of an ended invocation.           *)

\* Neither a client nor an orphaned user was found: the validator runs.
Unmatched == out.lookup.client = 0 /\ out.lookup.orphaned_user = None

\* The name fields the rule of the integration type misses (lines 116-141).
NameRuleMissing ==
    IF req.integration_type \in {CSV_IMPORT, THIRD_PARTY}
    THEN (IF ~Truthy(Names[1]) THEN <<"client_first_name">> ELSE <<>>)
         \o (IF ~Truthy(Names[2]) THEN <<"client_last_name">> ELSE <<>>)
    ELSE IF ~Truthy(Names[1]) THEN <<"client_first_name">> ELSE <<>>

\* The phone rule fails (line 144).
PhoneRuleFails == ~req.firm.is_corporate /\ Filtered = <<>>

\* The row carries the phone-required error.
PhoneRequiredError ==
    /\ out.row.error_fields = <<"client_cell_phone">>
    /\ out.row.error_message # Absent
    /\ out.row.error_message[1] = "Cell phone invalid: "

\* The row carries the missing-name error.
MissingNameError ==
    /\ out.row.error_fields = NameRuleMissing
    /\ out.row.error_message = <<"Client missing name.">>

\* The row carries the not-found error.
NotFoundError ==
    /\ out.row.error_fields = Absent
    /\ out.row.error_message = <<"Client not found, stopping import.">>

\* Nothing was written: no store call, the table as it was.
StoreUntouched ==
    /\ ~Issued("save") /\ ~Issued("commit") /\ ~Issued("rollback")
    /\ ~Issued("_update_client")
    /\ clients = pre

(* C13 as stated: a non-corporate firm's record with an empty filtered     *)
(* phone list and an integration id the store does not hold is rejected    *)
(* with the phone-required error, whatever the names.                      *)
C13_PhoneRequiredWhateverTheNames ==
    Ended /\ PhoneRuleFails /\ IdRows = {} => PhoneRequiredError

(* C13 amended: such a record is always rejected and nothing is created;   *)
(* the error is the phone-required one when the names pass the name rule,  *)
(* and the missing-name one when they do not.                              *)
C13_PhoneRequiredAfterNames ==
    Ended /\ PhoneRuleFails /\ IdRows = {} =>
        /\ Returned /\ HasError
        /\ ~out.created_client /\ ~out.updated_client
        /\ clients = pre
        /\ IF NameRuleMissing = <<>> THEN PhoneRequiredError ELSE MissingNameError

\* A record with both names and an email, and no phone.
C13_Witness ==
    /\ Ended /\ PhoneRuleFails /\ IdRows = {}
    /\ NameRuleMissing = <<>>
    /\ Truthy(req.field_names.email)
    /\ PhoneRequiredError

(* C14: a failed validation reports one error, the first failing condition *)
(* in the order name check, phone check: a record failing both gets the    *)
(* missing-name error only, and error_fields never holds a name field      *)
(* together with client_cell_phone.                                        *)
C14_FirstFailingConditionOnly ==
    Ended =>
        /\ Unmatched /\ NameRuleMissing # <<>> =>
              MissingNameError /\ Returned /\ ~out.created_client
        /\ Unmatched /\ NameRuleMissing = <<>> /\ PhoneRuleFails =>
              PhoneRequiredError /\ Returned /\ ~out.created_client
        /\ out.row.error_fields # Absent =>
              \/ out.row.error_fields = <<"client_cell_phone">>
              \/ \A k \in 1..Len(out.row.error_fields) :
                     out.row.error_fields[k] \in {"client_first_name",
                                                  "client_last_name"}

\* A record that fails the name rule and the phone rule.
C14_Witness ==
    /\ Ended /\ Unmatched
    /\ NameRuleMissing # <<>> /\ PhoneRuleFails
    /\ MissingNameError

(* C15: the name rule: for CSV import and third-party, error_fields is     *)
(* exactly the missing ones among client_first_name and client_last_name   *)
(* and the record is rejected for its names iff one is missing; for every  *)
(* other type only the first name is required.                             *)
C15_NameRule ==
    Ended /\ Unmatched =>
        LET strict == req.integration_type \in {CSV_IMPORT, THIRD_PARTY}
            no_first == ~Truthy(Names[1])
            no_last  == ~Truthy(Names[2])
            fields ==
                IF strict
                THEN IF no_first /\ no_last
                     THEN <<"client_first_name", "client_last_name">>
                     ELSE IF no_first THEN <<"client_first_name">>
                     ELSE IF no_last THEN <<"client_last_name">>
                     ELSE <<>>
                ELSE IF no_first THEN <<"client_first_name">> ELSE <<>>
        IN  /\ fields # <<>> =>
                  /\ out.row.error_fields = fields
                  /\ out.row.error_message = <<"Client missing name.">>
            /\ fields = <<>> =>
                  out.row.error_message # <<"Client missing name.">>

\* A CSV record without any name, rejected with both fields.
C15_Witness ==
    /\ Ended /\ Unmatched
    /\ req.integration_type = CSV_IMPORT
    /\ ~Truthy(Names[1]) /\ ~Truthy(Names[2])
    /\ out.row.error_fields = <<"client_first_name", "client_last_name">>

(* C16: when nothing is matched, validation passes and create_new_client   *)
(* is false, the invocation halts with 'Client not found, stopping         *)
(* import.', without error_fields, creating nothing and building no        *)
(* client; when validation fails, the validation error is reported         *)
(* instead, whatever create_new_client.                                    *)
C16_NotFoundWhenCreateDisallowed ==
    Ended /\ Unmatched =>
        /\ NameRuleMissing = <<>> /\ ~PhoneRuleFails /\ ~req.create_new_client =>
              /\ NotFoundError
              /\ Returned
              /\ ~out.created_client /\ ~out.updated_client
              /\ out.s.st = "none"
              /\ clients = pre
        /\ NameRuleMissing # <<>> \/ PhoneRuleFails =>
              /\ ~NotFoundError
              /\ MissingNameError \/ PhoneRequiredError

\* A well-formed record that matches nothing, creation not allowed.
C16_Witness ==
    /\ Ended /\ Unmatched
    /\ NameRuleMissing = <<>> /\ ~PhoneRuleFails /\ ~req.create_new_client
    /\ NotFoundError

(* C17: an invocation that ends in a validation error (missing name,       *)
(* phone required, not found and creation disabled) never touches the      *)
(* store: no save, commit or rollback, and the stored clients unchanged.   *)
C17_ValidationErrorLeavesStore ==
    Ended =>
        /\ /\ Unmatched
           /\ NameRuleMissing # <<>> \/ PhoneRuleFails \/ ~req.create_new_client
           => HasError /\ StoreUntouched
        /\ MissingNameError \/ PhoneRequiredError \/ NotFoundError
           => StoreUntouched

\* A record without a name is rejected while the store holds a client.
C17_Witness ==
    /\ Ended /\ Unmatched /\ Len(pre) > 0
    /\ MissingNameError

---------------------------------------------------------------------------
(* The create path.                                                        *)

\* The row of the client this invocation created.
CreatedRow == clients[Len(pre) + 1]

\* An account of the user store uses the supplied email.
EmailTaken ==
    /\ Truthy(req.field_names.email)
    /\ \E u \in users : u[1] = req.field_names.email

\* The save of the create block failed on a uniqueness constraint.
UniquenessViolation ==
    \/ out.create_error = <<"UNIQUE constraint failed: client.email">>
    \/ out.create_error = FaultError("expected")

(* C18: the email stored on a created client, as the store holds it when   *)
(* the invocation ends, is null when an orphaned user was found or an      *)
(* account already uses the supplied email, and the supplied email         *)
(* otherwise, whatever the firm's integration settings.                    *)
C18_StoredEmailOnCreate ==
    Ended /\ out.created_client /\ ~req.validation =>
        /\ Len(clients) = Len(pre) + 1
        /\ CreatedRow.email =
              IF out.lookup.orphaned_user # None \/ EmailTaken
              THEN None ELSE req.field_names.email

(* C19: a successful create stores a client with the firm's id, the        *)
(* derived first and last name, the supplied integration id and the first  *)
(* filtered phone number (none when the list is empty), and reports        *)
(* created_client.                                                         *)
C19_CreateStoresTheRecord ==
    Ended /\ out.created_client /\ ~req.validation =>
        /\ Len(clients) = Len(pre) + 1
        /\ CreatedRow.firm_id = req.firm.id
        /\ CreatedRow.first_name = Names[1]
        /\ CreatedRow.last_name = Names[2]
        /\ CreatedRow.integration_id = req.integration_id
        /\ CreatedRow.cell_phone = IF Filtered = <<>> THEN None ELSE Filtered[1]

(* C20: when the save of a create fails on a uniqueness violation, the     *)
(* handler returns, created_client is false and the row carries 'User      *)
(* already exists: <email>, <phone>' with the supplied email and the       *)
(* first filtered phone.                                                   *)
C20_UniquenessViolationIsReported ==
    Ended /\ UniquenessViolation =>
        /\ Returned
        /\ ~out.created_client
        /\ out.row.error_message =
              USER_ALREADY_EXISTS(req.field_names.email,
                                  IF Filtered = <<>> THEN None ELSE Filtered[1])

---------------------------------------------------------------------------
(* The store's failures and the updates of a matched client.               *)

(* C21: when the save of a create fails, the session is rolled back        *)
(* exactly once in the invocation and, unless the failure is a uniqueness  *)
(* violation, the row's error_message is the failure's own message; an     *)
(* invocation without a failed create save issues no rollback.             *)
C21_RollbackOnceOnFailedCreate ==
    Ended =>
        /\ out.create_error # None =>
              /\ Cardinality(Calls("rollback")) = 1
              /\ ~UniquenessViolation => out.row.error_message = out.create_error
        /\ out.create_error = None => ~Issued("rollback")

\* The store was unavailable at the save of a create: one rollback, the
\* store's message in the row, and the handler returned.
C21_Witness ==
    /\ Returned /\ ~Matched /\ req.create_new_client /\ ~req.validation
    /\ out.create_error = FaultError("other")
    /\ Cardinality(Calls("rollback")) = 1
    /\ out.row.error_message = FaultError("other")

(* C22: with update_client_missing_data on and a matched client whose      *)
(* birth date is not empty, an incoming birth date that differs from the   *)
(* stored one is in the patch when the integration type is CSV import,     *)
(* third-party or platform-native, and is not in the patch for any other   *)
(* integration type.                                                       *)
C22_BirthDateOverwriteBySource ==
    /\ Ended /\ Matched /\ MissingOn
    /\ Truthy(pre[out.lookup.client].birth_date)
    /\ Truthy(req.field_names.birth_date)
    /\ req.field_names.birth_date # pre[out.lookup.client].birth_date
    => /\ out.patch_built
       /\ "birth_date" \in DOMAIN out.patch
              <=> req.integration_type \in {CSV_IMPORT, THIRD_PARTY, MYCASE}

(* C23: when a client is matched and neither sync_client_contact_info nor  *)
(* update_client_missing_data is enabled (a setting that is absent counts  *)
(* as disabled), no update is attempted: _update_client is not called, no  *)
(* save or commit is issued, the matched client keeps every field,         *)
(* updated_client is false and the matched client is returned.             *)
C23_NoUpdateWhenSettingsOff ==
    Ended /\ Matched /\ ~SyncOn /\ ~MissingOn =>
        /\ Returned
        /\ ~Issued("_update_client") /\ ~Issued("save") /\ ~Issued("commit")
        /\ ~out.patch_built
        /\ clients = pre
        /\ ~out.updated_client /\ ~out.created_client
        /\ out.s.oid = out.lookup.client
        /\ out.s.obj = pre[out.lookup.client]

\* A firm without settings imports a birth date for a matched client that
\* has none.
C23_Witness ==
    /\ Returned /\ Matched /\ ~req.validation
    /\ DOMAIN req.firm.integration_settings = {}
    /\ req.field_names.birth_date = D1
    /\ pre[out.lookup.client].birth_date = None
    /\ clients = pre

---------------------------------------------------------------------------
(* The derived names.                                                      *)

\* The tokens of the combined name of the request.
NameTokens == Split(req.field_names.name, " ")

(* C24: a supplied non-empty first or last name is never replaced by a     *)
(* value derived from the combined name: when both are supplied the names  *)
(* are exactly them, and when one is supplied the combined name fills only *)
(* the other one: its first token for the first name, its other tokens     *)
(* joined by single spaces for the last name, none if it has one token.    *)
C24_SuppliedNamesAreKept ==
    Ended =>
        /\ Truthy(req.field_names.first_name)
              => out.row.first_name = req.field_names.first_name
        /\ Truthy(req.field_names.last_name)
              => out.row.last_name = req.field_names.last_name
        /\ /\ ~Truthy(req.field_names.first_name)
           /\ Truthy(req.field_names.last_name)
           /\ Truthy(req.field_names.name)
           => out.row.first_name = NameTokens[1]
        /\ /\ Truthy(req.field_names.first_name)
           /\ ~Truthy(req.field_names.last_name)
           /\ Truthy(req.field_names.name)
           => out.row.last_name =
                 IF Len(NameTokens) = 1 THEN None
                 ELSE Join(Tail(NameTokens), <<" ">>)

\* A record with a first name and the combined name "Bo Ra Li": the first
\* name is kept and the last name is "Ra Li".
C24_Witness ==
    /\ Ended
    /\ req.field_names.first_name = Ann /\ req.field_names.last_name = None
    /\ req.field_names.name = BoRaLi
    /\ out.row.first_name = Ann
    /\ out.row.last_name = <<"R", "a", " ", "L", "i">>

---------------------------------------------------------------------------
(* The phone-required message.                                             *)

\* The raw phone numbers of the request that are not null.
RawNumbers ==
    IF req.field_names.phone_numbers = NoList THEN <<>>
    ELSE SelectNotNone(req.field_names.phone_numbers)

(* C25: the phone-required message is 'Cell phone invalid: ' followed by   *)
(* the raw phone numbers that are not null, joined with ', ', the ones     *)
(* that failed the filter included, and by '<None>' when the record has no *)
(* raw number at all: the list absent, null, empty or of nulls only.       *)
C25_PhoneRequiredMessage ==
    Ended /\ PhoneRequiredError =>
        out.row.error_message =
            <<"Cell phone invalid: ">>
            \o (IF RawNumbers = <<>> THEN <<"<None>">>
                ELSE Join(RawNumbers, <<",", " ">>))

---------------------------------------------------------------------------
(* The create path, continued.                                             *)

(* C26: on a successful create that is not a dry run, the store's save is  *)
(* called exactly once in the invocation, with the newly built client; no  *)
(* second save and no update of the new client follows.                    *)
C26_CreateSavesOnce ==
    Ended /\ out.created_client /\ ~req.validation =>
        /\ Cardinality(Calls("save")) = 1
        /\ ~Issued("_update_client")
        /\ Len(clients) = Len(pre) + 1
        /\ CreatedRow = out.built

---------------------------------------------------------------------------
(* The orphaned-user lookup.                                               *)

\* The positions of the filtered list whose number an account has.
OrphanHits == {k \in 1..Len(Filtered) : \E u \in users : u[2] = Filtered[k]}

FirstOrphanHit == CHOOSE k \in OrphanHits : \A j \in OrphanHits : k <= j

\* The orphaned-user lookups find_existing_client made, in order.
OrphanLookups ==
    SelectSeq(out.lookup.ops,
              LAMBDA o : o.op = "identify_orphaned_user_by_phone_number")

(* C27: when no client is matched and an orphaned user is found for one of *)
(* the filtered numbers, the orphaned-user lookup is tried on the filtered *)
(* numbers in order and stops at the first that finds a candidate, and the *)
(* row's cell_phone is that number, not the display string of all the raw  *)
(* numbers.                                                                *)
C27_OrphanPhoneInRow ==
    Ended /\ ~Matched /\ out.lookup.orphaned_user # None =>
        /\ OrphanHits # {}
        /\ Len(OrphanLookups) = FirstOrphanHit
        /\ \A k \in 1..Len(OrphanLookups) : OrphanLookups[k].arg = Filtered[k]
        /\ out.row.cell_phone = Filtered[FirstOrphanHit]

---------------------------------------------------------------------------
(* The patch of an update.                                                 *)

ContactFields ==
    {CLIENT_CONTACT_INFO_FIELD_NAMES[i] : i \in 1..Len(CLIENT_CONTACT_INFO_FIELD_NAMES)}

MissingDataFields == {"birth_date", "ssn", "integration_id"}

(* C28: the patch applied to a matched client holds only fields the firm's *)
(* switches enable: with only sync_client_contact_info on its keys are     *)
(* among first_name, last_name, email, cell_phone; with only               *)
(* update_client_missing_data on they are among birth_date, ssn,           *)
(* integration_id; an update never writes the client's id or firm id.      *)
C28_PatchWithinAllowList ==
    Ended =>
        /\ out.patch_built =>
              /\ DOMAIN out.patch \subseteq ContactFields \cup MissingDataFields
              /\ SyncOn /\ ~MissingOn => DOMAIN out.patch \subseteq ContactFields
              /\ ~SyncOn /\ MissingOn => DOMAIN out.patch \subseteq MissingDataFields
        /\ ~out.patch_built => out.patch = <<>>
        /\ Len(clients) >= Len(pre)
        /\ \A i \in 1..Len(pre) : clients[i].firm_id = pre[i].firm_id

\* A matched client without a birth date is updated for a firm that syncs
\* the contact fields only, from a record with a birth date.
C28_Witness ==
    /\ Returned /\ Matched /\ SyncOn /\ ~MissingOn /\ out.updated_client
    /\ req.field_names.birth_date = D1
    /\ pre[out.lookup.client].birth_date = None
    /\ clients[out.lookup.client].birth_date = None
    /\ "birth_date" \notin DOMAIN out.patch

---------------------------------------------------------------------------
(* The stored phone numbers.                                               *)

\* The first filtered number of the request, None when there is none.
PrimaryNumber == IF Filtered = <<>> THEN None ELSE Filtered[1]

\* The cell phones this invocation stored: those of new rows and those of
\* rows whose cell phone it changed.
StoredPhones ==
    {clients[i].cell_phone : i \in {j \in 1..Len(clients) :
        j > Len(pre) \/ clients[j].cell_phone # pre[j].cell_phone}}

(* C29 as stated: every stored cell phone that is not null is a number the *)
(* firm's phone filter accepts.                                            *)
C29_StoredPhonesPassFilter ==
    \A i \in 1..Len(clients) :
        clients[i].cell_phone # None
            => parse_cell_phone_number(clients[i].cell_phone, req.firm)

(* C29, amended: the create path stores only the first filtered number     *)
(* (null when there is none); the update path, with                        *)
(* sync_client_contact_info on, stores the record's cell_phone field when  *)
(* it is not empty, as supplied and unfiltered; nothing else is ever       *)
(* stored as a cell phone.                                                 *)
C29_StoredPhonesComeFromRecord ==
    Ended =>
        /\ out.built # NewClient => out.built.cell_phone = PrimaryNumber
        /\ \A p \in StoredPhones :
              \/ p = PrimaryNumber /\ ~Matched /\ req.create_new_client
              \/ p = req.field_names.cell_phone /\ Truthy(p) /\ SyncOn

\* An update stores a cell phone that the filter rejects.
C29_Witness ==
    /\ Returned /\ Matched /\ SyncOn /\ out.updated_client
    /\ req.field_names.cell_phone = PBad
    /\ ~parse_cell_phone_number(PBad, req.firm)
    /\ pre[out.lookup.client].cell_phone = P1
    /\ clients[out.lookup.client].cell_phone = PBad

---------------------------------------------------------------------------
(* Validation and creation.                                                *)

\* The rows this invocation added to the table.
NewRows == (Len(pre) + 1)..Len(clients)

(* C30 as stated: validation gates every creation: a client is saved by    *)
(* the create path only for a record whose derived names satisfy the name  *)
(* rule of the integration type, so every client it persists has a first   *)
(* name that is not empty, also when an orphaned user was found.           *)
C30_ValidationGatesEveryCreate ==
    Ended =>
        \A i \in NewRows :
            NameRuleMissing = <<>> /\ Truthy(clients[i].first_name)

(* C30, amended: when neither a client nor an orphaned user was found, a   *)
(* client is persisted only for a record whose derived names satisfy the   *)
(* name rule, so its first name is not empty; when an orphaned user was    *)
(* found the validator is not run and only the store's NOT NULL columns    *)
(* stand: the persisted names are not null, and may be empty.              *)
C30_ValidationGatesUnmatchedCreate ==
    Ended =>
        /\ out.lookup.orphaned_user # None => ~out.validated
        /\ \A i \in NewRows :
              /\ clients[i].first_name # None /\ clients[i].last_name # None
              /\ Unmatched =>
                    /\ out.validated
                    /\ NameRuleMissing = <<>>
                    /\ Truthy(clients[i].first_name)

\* A record with an empty first name whose phone finds an orphaned user is
\* persisted without validation.
C30_Witness ==
    /\ Returned /\ out.lookup.orphaned_user # None /\ out.created_client
    /\ ~out.validated
    /\ req.field_names.first_name = <<>>
    /\ NameRuleMissing # <<>>
    /\ NewRows # {}
    /\ CreatedRow.first_name = <<>>

=============================================================================
